---- MODULE Spec2Model ----
(***************************************************************************)
(* Model of src/lib/BrownNoiseGenerator.svelte: a Svelte component that    *)
(* plays brown noise and/or binaural beats through one shared gain node    *)
(* and draws the output waveform once per animation frame.                 *)
(*                                                                         *)
(* Units.  volume is counted in hundredths (the slider step is 0.01), the  *)
(* value of a gain node in thousandths (so volume * 0.1 is exact), and a   *)
(* frequency in tenths of a hertz (so the Delta preset, 0.5 Hz, is 5).     *)
(*                                                                         *)
(* The component runs on one thread: a handler runs to completion before   *)
(* the next one starts.  Each action below is one whole handler; the       *)
(* calls it makes on the platform are recorded, in order, in log.          *)
(***************************************************************************)
EXTENDS Integers, Sequences, FiniteSets

\* ---------------------------------------------------------------- bounds
\* Nodes the platform may have created before a further preset click is taken.
MaxNodes == 11
\* Redraw callbacks the platform may have scheduled before it stops firing them.
MaxFrames == 3
\* The slider positions tried are the multiples of 100 \div VolGrid.
VolGrid == 4
\* Samples of the longest noise buffer generated.
MaxSamples == 2
\* The white values tried are the multiples of 1 / WhiteGrid in [-1, 1].
WhiteGrid == 5

\* ------------------------------------------------------ program constants
NULL == 0
\* max="1" step="0.01": the slider has the positions 0..100 (hundredths)
SliderMax == 100
\* let volume = 0.5
DefaultVolume == 50
\* let baseFrequency = 200
baseFrequency == 2000
\* let beatFrequency = 0.5
DefaultBeat == 5
\* leftGain.gain.value = 0.1
ChannelGain == 100
\* Web Audio defaults of a new gain node (1.0) and a new oscillator (440 Hz)
UnityGain == 1000
DefaultOscFrequency == 4400
\* the context's destination, as a connection target
Destination == 0

\* brainwavePresets: the frequency of each entry, NULL for Brown Noise
brainwavePresets == <<NULL, 5, 40, 80, 130, 300>>
PresetFrequencies == {brainwavePresets[i] : i \in 1..Len(brainwavePresets)}

Volumes == {k * (SliderMax \div VolGrid) : k \in 0..VolGrid} \cup {SliderMax}

\* const white = Math.random() * 2 - 1, counted in steps of 1 / WhiteGrid
Whites == (-WhiteGrid)..WhiteGrid

\* A sample is counted in parts of Unit, chosen so that every value
\* createBrownNoise computes within MaxSamples samples is a whole number:
\* 1.0 is Unit, and 0.02 * white is white * WhiteUnit.
Unit == 2 * 50 * WhiteGrid * 51^MaxSamples
WhiteUnit == Unit \div (50 * WhiteGrid)

VARIABLES
    audioContext,        \* NULL or the number of the context in use
    brownNoiseNode,      \* NULL or a node id
    gainNode,            \* NULL or a node id
    analyserNode,        \* NULL or a node id
    leftOscillator,      \* NULL or a node id
    rightOscillator,     \* NULL or a node id
    leftGain,            \* NULL or a node id
    rightGain,           \* NULL or a node id
    isBrownNoisePlaying,
    isBinauralPlaying,
    volume,
    beatFrequency,
    canvas,              \* FALSE until the canvas element is bound
    animationFrameId,    \* NULL or the id returned by requestAnimationFrame
    \* the platform
    nodes,               \* every audio node created so far, by id
    contexts,            \* every audio context created so far: "running"/"closed"
    buffers,             \* number of audio buffers generated so far
    pending,             \* ids of the scheduled redraw callbacks
    frames,              \* number of ids requestAnimationFrame has handed out
    \* createBrownNoise's locals; the loop index i is Len(data)
    bufferSize,
    data,                \* the samples stored so far
    lastOut,
    white,               \* the white value drawn last
    \* the component's life and the handler that ran last
    phase,               \* "created", "mounted", "destroyed"
    lastOp,              \* the handler that ran last and its argument
    log                  \* what the handler that ran last did, in order

vars == <<audioContext, brownNoiseNode, gainNode, analyserNode, leftOscillator,
          rightOscillator, leftGain, rightGain, isBrownNoisePlaying,
          isBinauralPlaying, volume, beatFrequency, canvas, animationFrameId,
          nodes, contexts, buffers, pending, frames, bufferSize, data, lastOut,
          white, phase, lastOp, log>>

generatorVars == <<bufferSize, data, lastOut, white>>

\* The state as one record, so that a function of the component is an
\* operator from states to states.
State ==
    [audioContext |-> audioContext, brownNoiseNode |-> brownNoiseNode,
     gainNode |-> gainNode, analyserNode |-> analyserNode,
     leftOscillator |-> leftOscillator, rightOscillator |-> rightOscillator,
     leftGain |-> leftGain, rightGain |-> rightGain,
     isBrownNoisePlaying |-> isBrownNoisePlaying,
     isBinauralPlaying |-> isBinauralPlaying,
     volume |-> volume, beatFrequency |-> beatFrequency, canvas |-> canvas,
     animationFrameId |-> animationFrameId, nodes |-> nodes,
     contexts |-> contexts, buffers |-> buffers, pending |-> pending,
     frames |-> frames, log |-> <<>>]

\* The handler's result e becomes the next state.
Becomes(e) ==
    \E s \in {e} :
        /\ audioContext' = s.audioContext
        /\ brownNoiseNode' = s.brownNoiseNode
        /\ gainNode' = s.gainNode
        /\ analyserNode' = s.analyserNode
        /\ leftOscillator' = s.leftOscillator
        /\ rightOscillator' = s.rightOscillator
        /\ leftGain' = s.leftGain
        /\ rightGain' = s.rightGain
        /\ isBrownNoisePlaying' = s.isBrownNoisePlaying
        /\ isBinauralPlaying' = s.isBinauralPlaying
        /\ volume' = s.volume
        /\ beatFrequency' = s.beatFrequency
        /\ canvas' = s.canvas
        /\ animationFrameId' = s.animationFrameId
        /\ nodes' = s.nodes
        /\ contexts' = s.contexts
        /\ buffers' = s.buffers
        /\ pending' = s.pending
        /\ frames' = s.frames
        /\ log' = s.log
        /\ UNCHANGED generatorVars

\* ------------------------------------------------------------ the platform
\* One entry of log: the call, the node it was made on, and the two
\* playback flags as they stood when it was made.
Did(s, op, node) ==
    [s EXCEPT !.log = Append(@, [op |-> op, node |-> node,
                                 noise |-> s.isBrownNoisePlaying,
                                 tones |-> s.isBinauralPlaying])]

\* audioContext.createGain() and the other create* calls: a new node, whose
\* id is Len(s.nodes) + 1 afterwards.
createNode(s, kind, value) ==
    Did([s EXCEPT !.nodes = Append(@, [kind |-> kind, value |-> value,
                                       out |-> {}, starts |-> 0, stops |-> 0,
                                       buffer |-> NULL])],
        "create", Len(s.nodes) + 1)

connect(s, from, to) ==
    Did([s EXCEPT !.nodes[from].out = @ \cup {to}], "connect", from)

disconnect(s, n) ==
    Did([s EXCEPT !.nodes[n].out = {}], "disconnect", n)

start(s, n) ==
    Did([s EXCEPT !.nodes[n].starts = @ + 1], "start", n)

stop(s, n) ==
    Did([s EXCEPT !.nodes[n].stops = @ + 1], "stop", n)

setValue(s, n, v) ==
    Did([s EXCEPT !.nodes[n].value = v], "set", n)

requestAnimationFrame(s) ==
    Did([s EXCEPT !.frames = @ + 1, !.pending = @ \cup {s.frames + 1}],
        "requestFrame", s.frames + 1)

cancelAnimationFrame(s, id) ==
    Did([s EXCEPT !.pending = @ \ {id}], "cancelFrame", id)

\* ----------------------------------------------------------- the component
\* Statements run one after the other: Bind(e, LAMBDA x : body) is body with
\* x the state that e has produced.
Bind(e, Body(_)) == CHOOSE r \in {Body(x) : x \in {e}} : TRUE

\* createBrownNoise keeping the buffer it generated first
createBrownNoiseCached(s) ==
    IF s.buffers > 0
    THEN s
    ELSE Did([s EXCEPT !.buffers = @ + 1], "buffer", s.buffers + 1)

\* createBrownNoise(1, sampleRate): a newly generated buffer
createBrownNoise(s) ==
    Did([s EXCEPT !.buffers = @ + 1], "buffer", s.buffers + 1)

drawWaveform(s) ==
    IF s.analyserNode = NULL \/ ~s.canvas
    THEN s
    ELSE Bind(requestAnimationFrame(s), LAMBDA s1 :
         [s1 EXCEPT !.animationFrameId = s1.frames])

setupAnalyser(s) ==
    IF s.audioContext = NULL
    THEN s
    ELSE Bind(createNode(s, "analyser", 0), LAMBDA s1 :
         Bind([s1 EXCEPT !.analyserNode = Len(s1.nodes)], LAMBDA s2 :
         Bind(IF s2.gainNode # NULL
              THEN connect(connect(s2, s2.gainNode, s2.analyserNode),
                           s2.analyserNode, Destination)
              ELSE s2, LAMBDA s3 :
         IF (s3.isBrownNoisePlaying \/ s3.isBinauralPlaying)
            /\ s3.animationFrameId = NULL
         THEN drawWaveform(s3)
         ELSE s3)))

\* audioContext = new AudioContext(); gainNode = audioContext.createGain();
\* setupAnalyser(); gainNode.gain.value = volume
newAudioContext(s) ==
    Bind(Did([s EXCEPT !.contexts = Append(@, "running"),
                       !.audioContext = Len(s.contexts) + 1],
             "newContext", NULL), LAMBDA s1 :
    Bind(createNode(s1, "gain", UnityGain), LAMBDA s2 :
    Bind(setupAnalyser([s2 EXCEPT !.gainNode = Len(s2.nodes)]), LAMBDA s3 :
    setValue(s3, s3.gainNode, s3.volume * 10))))

\* setupBinauralBeats making a new context whether or not there is one
setupBinauralBeatsNewContext(s) ==
    Bind(newAudioContext(s), LAMBDA s0 :
    Bind(createNode(s0, "oscillator", DefaultOscFrequency), LAMBDA s1 :
    Bind(createNode([s1 EXCEPT !.leftOscillator = Len(s1.nodes)],
                    "oscillator", DefaultOscFrequency), LAMBDA s2 :
    Bind(createNode([s2 EXCEPT !.rightOscillator = Len(s2.nodes)],
                    "gain", UnityGain), LAMBDA s3 :
    Bind(createNode([s3 EXCEPT !.leftGain = Len(s3.nodes)],
                    "gain", UnityGain), LAMBDA s4 :
    Bind([s4 EXCEPT !.rightGain = Len(s4.nodes)], LAMBDA s5 :
    Bind(setValue(s5, s5.leftOscillator, baseFrequency), LAMBDA s6 :
    Bind(setValue(s6, s6.rightOscillator, baseFrequency + s6.beatFrequency),
         LAMBDA s7 :
    Bind(createNode(s7, "merger", 0), LAMBDA s8 :
    Bind(connect(s8, s8.leftOscillator, s8.leftGain), LAMBDA s9 :
    Bind(connect(s9, s9.leftGain, Len(s8.nodes)), LAMBDA s10 :
    Bind(connect(s10, s10.rightOscillator, s10.rightGain), LAMBDA s11 :
    Bind(connect(s11, s11.rightGain, Len(s8.nodes)), LAMBDA s12 :
    Bind(IF s12.gainNode # NULL
         THEN connect(s12, Len(s8.nodes), s12.gainNode)
         ELSE s12, LAMBDA s13 :
    Bind(setValue(s13, s13.leftGain, ChannelGain), LAMBDA s14 :
    Bind(setValue(s14, s14.rightGain, ChannelGain), LAMBDA s15 :
    Bind(start(s15, s15.leftOscillator), LAMBDA s16 :
    start(s16, s16.rightOscillator))))))))))))))))))

setupBinauralBeats(s) ==
    Bind(IF s.audioContext = NULL THEN newAudioContext(s) ELSE s, LAMBDA s0 :
    Bind(createNode(s0, "oscillator", DefaultOscFrequency), LAMBDA s1 :
    Bind(createNode([s1 EXCEPT !.leftOscillator = Len(s1.nodes)],
                    "oscillator", DefaultOscFrequency), LAMBDA s2 :
    Bind(createNode([s2 EXCEPT !.rightOscillator = Len(s2.nodes)],
                    "gain", UnityGain), LAMBDA s3 :
    Bind(createNode([s3 EXCEPT !.leftGain = Len(s3.nodes)],
                    "gain", UnityGain), LAMBDA s4 :
    Bind([s4 EXCEPT !.rightGain = Len(s4.nodes)], LAMBDA s5 :
    Bind(setValue(s5, s5.leftOscillator, baseFrequency), LAMBDA s6 :
    Bind(setValue(s6, s6.rightOscillator, baseFrequency + s6.beatFrequency),
         LAMBDA s7 :
    \* const merger: the node s8 has created last
    Bind(createNode(s7, "merger", 0), LAMBDA s8 :
    Bind(connect(s8, s8.leftOscillator, s8.leftGain), LAMBDA s9 :
    Bind(connect(s9, s9.leftGain, Len(s8.nodes)), LAMBDA s10 :
    Bind(connect(s10, s10.rightOscillator, s10.rightGain), LAMBDA s11 :
    Bind(connect(s11, s11.rightGain, Len(s8.nodes)), LAMBDA s12 :
    Bind(IF s12.gainNode # NULL
         THEN connect(s12, Len(s8.nodes), s12.gainNode)
         ELSE s12, LAMBDA s13 :
    Bind(setValue(s13, s13.leftGain, ChannelGain), LAMBDA s14 :
    Bind(setValue(s14, s14.rightGain, ChannelGain), LAMBDA s15 :
    Bind(start(s15, s15.leftOscillator), LAMBDA s16 :
    start(s16, s16.rightOscillator))))))))))))))))))

\* updateBinauralBeats leaving the playing oscillators as they are
updateBinauralBeatsStale(s) ==
    s

updateBinauralBeats(s) ==
    IF s.leftOscillator # NULL /\ s.rightOscillator # NULL
    THEN Bind(setValue(s, s.leftOscillator, baseFrequency), LAMBDA s1 :
         setValue(s1, s1.rightOscillator, baseFrequency + s1.beatFrequency))
    ELSE s

\* toggleBrownNoise keeping its reference to the source it has stopped
toggleBrownNoiseKeepsRef(s) ==
    Bind(IF s.audioContext = NULL THEN newAudioContext(s) ELSE s, LAMBDA s0 :
    IF ~s0.isBrownNoisePlaying
    THEN Bind(createNode(s0, "source", 0), LAMBDA s1 :
         Bind(createBrownNoise([s1 EXCEPT !.brownNoiseNode = Len(s1.nodes)]),
              LAMBDA s2 :
         Bind([s2 EXCEPT !.nodes[s2.brownNoiseNode].buffer = s2.buffers],
              LAMBDA s3 :
         Bind(IF s3.gainNode # NULL
              THEN connect(setValue(s3, s3.gainNode, s3.volume),
                           s3.brownNoiseNode, s3.gainNode)
              ELSE s3, LAMBDA s4 :
         Bind(start(s4, s4.brownNoiseNode), LAMBDA s5 :
         Did([s5 EXCEPT !.isBrownNoisePlaying = TRUE], "flag", NULL))))))
    ELSE Bind(IF s0.brownNoiseNode # NULL
              THEN disconnect(stop(s0, s0.brownNoiseNode), s0.brownNoiseNode)
              ELSE s0, LAMBDA s1 :
         Did([s1 EXCEPT !.isBrownNoisePlaying = FALSE], "flag", NULL)))

toggleBrownNoise(s) ==
    Bind(IF s.audioContext = NULL THEN newAudioContext(s) ELSE s, LAMBDA s0 :
    IF ~s0.isBrownNoisePlaying
    THEN Bind(createNode(s0, "source", 0), LAMBDA s1 :
         Bind(createBrownNoise([s1 EXCEPT !.brownNoiseNode = Len(s1.nodes)]),
              LAMBDA s2 :
         Bind([s2 EXCEPT !.nodes[s2.brownNoiseNode].buffer = s2.buffers],
              LAMBDA s3 :
         Bind(IF s3.gainNode # NULL
              THEN connect(setValue(s3, s3.gainNode, s3.volume),
                           s3.brownNoiseNode, s3.gainNode)
              ELSE s3, LAMBDA s4 :
         Bind(start(s4, s4.brownNoiseNode), LAMBDA s5 :
         Did([s5 EXCEPT !.isBrownNoisePlaying = TRUE], "flag", NULL))))))
    ELSE Bind(IF s0.brownNoiseNode # NULL
              THEN disconnect(stop(s0, s0.brownNoiseNode), s0.brownNoiseNode)
              ELSE s0, LAMBDA s1 :
         Did([s1 EXCEPT !.brownNoiseNode = NULL,
                         !.isBrownNoisePlaying = FALSE], "flag", NULL)))

\* toggleBinauralBeats keeping its references to the oscillators it has stopped
toggleBinauralBeatsKeepsRefs(s) ==
    IF ~s.isBinauralPlaying
    THEN Bind(setupBinauralBeats(s), LAMBDA s1 :
         Did([s1 EXCEPT !.isBinauralPlaying = TRUE], "flag", NULL))
    ELSE Bind(IF s.leftOscillator # NULL THEN stop(s, s.leftOscillator) ELSE s,
              LAMBDA s1 :
         Bind(IF s1.rightOscillator # NULL THEN stop(s1, s1.rightOscillator) ELSE s1,
              LAMBDA s2 :
         Bind(IF s2.leftOscillator # NULL THEN disconnect(s2, s2.leftOscillator) ELSE s2,
              LAMBDA s3 :
         Bind(IF s3.rightOscillator # NULL THEN disconnect(s3, s3.rightOscillator) ELSE s3,
              LAMBDA s4 :
         Did([s4 EXCEPT !.isBinauralPlaying = FALSE], "flag", NULL)))))

toggleBinauralBeats(s) ==
    IF ~s.isBinauralPlaying
    THEN Bind(setupBinauralBeats(s), LAMBDA s1 :
         Did([s1 EXCEPT !.isBinauralPlaying = TRUE], "flag", NULL))
    ELSE Bind(IF s.leftOscillator # NULL THEN stop(s, s.leftOscillator) ELSE s,
              LAMBDA s1 :
         Bind(IF s1.rightOscillator # NULL THEN stop(s1, s1.rightOscillator) ELSE s1,
              LAMBDA s2 :
         Bind(IF s2.leftOscillator # NULL THEN disconnect(s2, s2.leftOscillator) ELSE s2,
              LAMBDA s3 :
         Bind(IF s3.rightOscillator # NULL THEN disconnect(s3, s3.rightOscillator) ELSE s3,
              LAMBDA s4 :
         Did([s4 EXCEPT !.leftOscillator = NULL, !.rightOscillator = NULL,
                        !.isBinauralPlaying = FALSE], "flag", NULL)))))

\* setBrainwavePreset toggling the tones on a frequency preset
setBrainwavePresetTogglesTones(s, frequency) ==
    Bind(IF frequency = NULL
         THEN Bind(toggleBrownNoise(s), LAMBDA t1 :
                   IF t1.isBinauralPlaying THEN toggleBinauralBeats(t1) ELSE t1)
         ELSE Bind([s EXCEPT !.beatFrequency = frequency], LAMBDA t1 :
                   Bind(IF t1.isBrownNoisePlaying THEN toggleBrownNoise(t1) ELSE t1,
                        LAMBDA t2 :
                   toggleBinauralBeats(t2))),
         LAMBDA s1 :
    IF (s1.isBrownNoisePlaying \/ s1.isBinauralPlaying)
       /\ s1.animationFrameId = NULL
    THEN drawWaveform(s1)
    ELSE IF ~s1.isBrownNoisePlaying /\ ~s1.isBinauralPlaying
            /\ s1.animationFrameId # NULL
         THEN [cancelAnimationFrame(s1, s1.animationFrameId)
                  EXCEPT !.animationFrameId = NULL]
         ELSE s1)

\* setBrainwavePreset starting the redraw without looking at animationFrameId
setBrainwavePresetAlwaysDraws(s, frequency) ==
    Bind(IF frequency = NULL
         THEN Bind(toggleBrownNoise(s), LAMBDA t1 :
                   IF t1.isBinauralPlaying THEN toggleBinauralBeats(t1) ELSE t1)
         ELSE Bind([s EXCEPT !.beatFrequency = frequency], LAMBDA t1 :
                   Bind(IF t1.isBrownNoisePlaying THEN toggleBrownNoise(t1) ELSE t1,
                        LAMBDA t2 :
                   IF ~t2.isBinauralPlaying
                   THEN toggleBinauralBeats(t2)
                   ELSE updateBinauralBeats(t2))),
         LAMBDA s1 :
    IF s1.isBrownNoisePlaying \/ s1.isBinauralPlaying
    THEN drawWaveform(s1)
    ELSE IF s1.animationFrameId # NULL
         THEN [cancelAnimationFrame(s1, s1.animationFrameId)
                  EXCEPT !.animationFrameId = NULL]
         ELSE s1)

\* setBrainwavePreset with the noise branch forgetting to stop the tones
setBrainwavePresetKeepsTones(s, frequency) ==
    Bind(IF frequency = NULL
         THEN toggleBrownNoise(s)
         ELSE Bind([s EXCEPT !.beatFrequency = frequency], LAMBDA t1 :
                   Bind(IF t1.isBrownNoisePlaying THEN toggleBrownNoise(t1) ELSE t1,
                        LAMBDA t2 :
                   IF ~t2.isBinauralPlaying
                   THEN toggleBinauralBeats(t2)
                   ELSE updateBinauralBeats(t2))),
         LAMBDA s1 :
    IF (s1.isBrownNoisePlaying \/ s1.isBinauralPlaying)
       /\ s1.animationFrameId = NULL
    THEN drawWaveform(s1)
    ELSE IF ~s1.isBrownNoisePlaying /\ ~s1.isBinauralPlaying
            /\ s1.animationFrameId # NULL
         THEN [cancelAnimationFrame(s1, s1.animationFrameId)
                  EXCEPT !.animationFrameId = NULL]
         ELSE s1)

\* setBrainwavePreset without the branch that cancels the redraw
setBrainwavePresetNoCancel(s, frequency) ==
    Bind(IF frequency = NULL
         THEN Bind(toggleBrownNoise(s), LAMBDA t1 :
                   IF t1.isBinauralPlaying THEN toggleBinauralBeats(t1) ELSE t1)
         ELSE Bind([s EXCEPT !.beatFrequency = frequency], LAMBDA t1 :
                   Bind(IF t1.isBrownNoisePlaying THEN toggleBrownNoise(t1) ELSE t1,
                        LAMBDA t2 :
                   IF ~t2.isBinauralPlaying
                   THEN toggleBinauralBeats(t2)
                   ELSE updateBinauralBeats(t2))),
         LAMBDA s1 :
    IF (s1.isBrownNoisePlaying \/ s1.isBinauralPlaying)
       /\ s1.animationFrameId = NULL
    THEN drawWaveform(s1)
    ELSE s1)

\* setBrainwavePreset restarting the tones when they are already playing
setBrainwavePresetRestarts(s, frequency) ==
    Bind(IF frequency = NULL
         THEN Bind(toggleBrownNoise(s), LAMBDA t1 :
                   IF t1.isBinauralPlaying THEN toggleBinauralBeats(t1) ELSE t1)
         ELSE Bind([s EXCEPT !.beatFrequency = frequency], LAMBDA t1 :
                   Bind(IF t1.isBrownNoisePlaying THEN toggleBrownNoise(t1) ELSE t1,
                        LAMBDA t2 :
                   IF ~t2.isBinauralPlaying
                   THEN toggleBinauralBeats(t2)
                   ELSE Bind(toggleBinauralBeats(t2), LAMBDA t3 :
                        toggleBinauralBeats(t3)))),
         LAMBDA s1 :
    IF (s1.isBrownNoisePlaying \/ s1.isBinauralPlaying)
       /\ s1.animationFrameId = NULL
    THEN drawWaveform(s1)
    ELSE IF ~s1.isBrownNoisePlaying /\ ~s1.isBinauralPlaying
            /\ s1.animationFrameId # NULL
         THEN [cancelAnimationFrame(s1, s1.animationFrameId)
                  EXCEPT !.animationFrameId = NULL]
         ELSE s1)

setBrainwavePreset(s, frequency) ==
    Bind(IF frequency = NULL
         THEN Bind(toggleBrownNoise(s), LAMBDA t1 :
                   IF t1.isBinauralPlaying THEN toggleBinauralBeats(t1) ELSE t1)
         ELSE Bind([s EXCEPT !.beatFrequency = frequency], LAMBDA t1 :
                   Bind(IF t1.isBrownNoisePlaying THEN toggleBrownNoise(t1) ELSE t1,
                        LAMBDA t2 :
                   IF ~t2.isBinauralPlaying
                   THEN toggleBinauralBeats(t2)
                   ELSE updateBinauralBeats(t2))),
         LAMBDA s1 :
    IF (s1.isBrownNoisePlaying \/ s1.isBinauralPlaying)
       /\ s1.animationFrameId = NULL
    THEN drawWaveform(s1)
    ELSE IF ~s1.isBrownNoisePlaying /\ ~s1.isBinauralPlaying
            /\ s1.animationFrameId # NULL
         THEN [cancelAnimationFrame(s1, s1.animationFrameId)
                  EXCEPT !.animationFrameId = NULL]
         ELSE s1)

\* updateVolume without the noise case
updateVolumeNoNoiseCase(s) ==
    IF s.gainNode # NULL
    THEN setValue(s, s.gainNode, s.volume * 10)
    ELSE s

updateVolume(s) ==
    IF s.gainNode # NULL
    THEN IF s.isBrownNoisePlaying
         THEN setValue(s, s.gainNode, s.volume)
         ELSE setValue(s, s.gainNode, s.volume * 10)
    ELSE s

\* onDestroy closing the audio context before it stops the nodes
onDestroyClosesFirst(s) ==
    Bind(IF s.animationFrameId # NULL
         THEN [cancelAnimationFrame(s, s.animationFrameId)
                  EXCEPT !.animationFrameId = NULL]
         ELSE s, LAMBDA s1 :
    Bind(IF s1.audioContext # NULL
         THEN Did([s1 EXCEPT !.contexts[s1.audioContext] = "closed"],
                  "closeContext", NULL)
         ELSE s1, LAMBDA s2 :
    Bind(IF s2.brownNoiseNode # NULL
         THEN disconnect(stop(s2, s2.brownNoiseNode), s2.brownNoiseNode)
         ELSE s2, LAMBDA s3 :
    Bind(IF s3.leftOscillator # NULL
         THEN disconnect(stop(s3, s3.leftOscillator), s3.leftOscillator)
         ELSE s3, LAMBDA s4 :
    IF s4.rightOscillator # NULL
    THEN disconnect(stop(s4, s4.rightOscillator), s4.rightOscillator)
    ELSE s4))))

\* onDestroy without the cancellation of the pending redraw
onDestroyNoCancel(s) ==
    Bind(s, LAMBDA s1 :
    Bind(IF s1.brownNoiseNode # NULL
         THEN disconnect(stop(s1, s1.brownNoiseNode), s1.brownNoiseNode)
         ELSE s1, LAMBDA s2 :
    Bind(IF s2.leftOscillator # NULL
         THEN disconnect(stop(s2, s2.leftOscillator), s2.leftOscillator)
         ELSE s2, LAMBDA s3 :
    Bind(IF s3.rightOscillator # NULL
         THEN disconnect(stop(s3, s3.rightOscillator), s3.rightOscillator)
         ELSE s3, LAMBDA s4 :
    IF s4.audioContext # NULL
    THEN Did([s4 EXCEPT !.contexts[s4.audioContext] = "closed"],
             "closeContext", NULL)
    ELSE s4))))

onDestroy(s) ==
    Bind(IF s.animationFrameId # NULL
         THEN [cancelAnimationFrame(s, s.animationFrameId)
                  EXCEPT !.animationFrameId = NULL]
         ELSE s, LAMBDA s1 :
    Bind(IF s1.brownNoiseNode # NULL
         THEN disconnect(stop(s1, s1.brownNoiseNode), s1.brownNoiseNode)
         ELSE s1, LAMBDA s2 :
    Bind(IF s2.leftOscillator # NULL
         THEN disconnect(stop(s2, s2.leftOscillator), s2.leftOscillator)
         ELSE s2, LAMBDA s3 :
    Bind(IF s3.rightOscillator # NULL
         THEN disconnect(stop(s3, s3.rightOscillator), s3.rightOscillator)
         ELSE s3, LAMBDA s4 :
    IF s4.audioContext # NULL
    THEN Did([s4 EXCEPT !.contexts[s4.audioContext] = "closed"],
             "closeContext", NULL)
    ELSE s4))))

\* class:active of the i-th preset button, without the test of the playing flag
activeIgnoresPlaying(i) ==
    IF brainwavePresets[i] = NULL
    THEN isBrownNoisePlaying
    ELSE beatFrequency = brainwavePresets[i]

\* class:active of the i-th preset button
active(i) ==
    IF brainwavePresets[i] = NULL
    THEN isBrownNoisePlaying
    ELSE beatFrequency = brainwavePresets[i] /\ isBinauralPlaying

\* ------------------------------------------------------------------ actions
InitComponent ==
    /\ audioContext = NULL
    /\ brownNoiseNode = NULL
    /\ gainNode = NULL
    /\ analyserNode = NULL
    /\ leftOscillator = NULL
    /\ rightOscillator = NULL
    /\ leftGain = NULL
    /\ rightGain = NULL
    /\ isBrownNoisePlaying = FALSE
    /\ isBinauralPlaying = FALSE
    /\ volume = DefaultVolume
    /\ beatFrequency = DefaultBeat
    /\ canvas = FALSE
    /\ animationFrameId = NULL
    /\ nodes = <<>>
    /\ contexts = <<>>
    /\ buffers = 0
    /\ pending = {}
    /\ frames = 0
    /\ phase = "created"
    /\ lastOp = [name |-> "init", arg |-> NULL]
    /\ log = <<>>

\* the component as constructed; no noise buffer is being generated
Init ==
    /\ InitComponent
    /\ bufferSize = 0
    /\ data = <<>>
    /\ lastOut = 0
    /\ white = 0

\* <canvas bind:this={canvas} /> and onMount: the markup is in the document
Mount ==
    /\ phase = "created"
    /\ phase' = "mounted"
    /\ lastOp' = [name |-> "onMount", arg |-> NULL]
    /\ Becomes([State EXCEPT !.canvas = TRUE])

\* on:click={() => setBrainwavePreset(preset.frequency)}
SelectPreset(i) ==
    /\ phase = "mounted"
    /\ Len(nodes) < MaxNodes
    /\ lastOp' = [name |-> "setBrainwavePreset", arg |-> brainwavePresets[i]]
    /\ Becomes(setBrainwavePreset(State, brainwavePresets[i]))
    /\ UNCHANGED phase

\* bind:value={volume} on:input={updateVolume}
ChangeVolume(v) ==
    /\ phase = "mounted"
    /\ lastOp' = [name |-> "updateVolume", arg |-> v]
    /\ Becomes(updateVolume([State EXCEPT !.volume = v]))
    /\ UNCHANGED phase

\* the platform runs a scheduled redraw callback
Frame(id) ==
    /\ id \in pending
    /\ frames < MaxFrames
    /\ lastOp' = [name |-> "drawWaveform", arg |-> id]
    /\ Becomes(drawWaveform([State EXCEPT !.pending = @ \ {id}]))
    /\ UNCHANGED phase

Destroy ==
    /\ phase = "mounted"
    /\ phase' = "destroyed"
    /\ lastOp' = [name |-> "onDestroy", arg |-> NULL]
    /\ Becomes(onDestroy(State))

Next ==
    \/ Mount
    \/ \E i \in 1..Len(brainwavePresets) : SelectPreset(i)
    \/ \E v \in Volumes : ChangeVolume(v)
    \/ \E id \in 1..(MaxFrames + MaxNodes) : Frame(id)
    \/ Destroy

Spec == Init /\ [][Next]_vars

\* The two toggles called on their own, as the separate controls the
\* component has the functions for but no markup.
ToggleNoise ==
    /\ phase = "mounted"
    /\ Len(nodes) < MaxNodes
    /\ lastOp' = [name |-> "toggleBrownNoise", arg |-> NULL]
    /\ Becomes(toggleBrownNoise(State))
    /\ UNCHANGED phase

ToggleTones ==
    /\ phase = "mounted"
    /\ Len(nodes) < MaxNodes
    /\ lastOp' = [name |-> "toggleBinauralBeats", arg |-> NULL]
    /\ Becomes(toggleBinauralBeats(State))
    /\ UNCHANGED phase

NextDirect ==
    \/ Next
    \/ ToggleNoise
    \/ ToggleTones

SpecDirect == Init /\ [][NextDirect]_vars

\* createBrownNoise on its own, sample by sample, for every buffer length up
\* to MaxSamples and every white value of the grid.
\* (lastOut + 0.02 * white) / 1.02 without the leak: lastOut + 0.02 * white
integrateNoLeak(last, w) ==
    last + w * WhiteUnit

\* (lastOut + 0.02 * white) / 1.02
integrate(last, w) ==
    ((last + w * WhiteUnit) \div 51) * 50

\* data[i] *= 3.5
scale(x) ==
    (x \div 2) * 7

\* const bufferSize = duration * sampleRate; let lastOut = 0
InitNoise ==
    /\ InitComponent
    /\ bufferSize \in 1..MaxSamples
    /\ data = <<>>
    /\ lastOut = 0
    /\ white = 0

\* one turn of the loop
NoiseSample(w) ==
    /\ Len(data) < bufferSize
    /\ white' = w
    /\ lastOut' = integrate(lastOut, w)
    /\ data' = Append(data, scale(integrate(lastOut, w)))
    /\ UNCHANGED <<audioContext, brownNoiseNode, gainNode, analyserNode,
                   leftOscillator, rightOscillator, leftGain, rightGain,
                   isBrownNoisePlaying, isBinauralPlaying, volume, beatFrequency,
                   canvas, animationFrameId, nodes, contexts, buffers, pending,
                   frames, bufferSize, phase, lastOp, log>>

NextNoise ==
    \E w \in Whites : NoiseSample(w)

SpecNoise == InitNoise /\ [][NextNoise]_vars

\* ------------------------------------------------------------- properties
Playing == isBrownNoisePlaying \/ isBinauralPlaying

LogHas(op) == \E i \in 1..Len(log) : log[i].op = op

LogHasOn(op, kind) ==
    \E i \in 1..Len(log) : log[i].op = op /\ nodes[log[i].node].kind = kind

MergersOnGain ==
    {n \in 1..Len(nodes) : nodes[n].kind = "merger" /\ gainNode \in nodes[n].out}

\* C1: once the shared gain node exists, its gain is volume * 0.1 while
\* noise is playing and volume while noise is not playing.
MixGainInvariant ==
    gainNode # NULL =>
        nodes[gainNode].value = IF isBrownNoisePlaying THEN volume ELSE volume * 10

\* C2: inside a preset selection no step has both playing flags true: the
\* other source is stopped before the selected one is started.
PresetStopsOtherFirst ==
    lastOp.name = "setBrainwavePreset" =>
        \A i \in 1..Len(log) : ~(log[i].noise /\ log[i].tones)

\* C3: between handlers, after any sequence of preset selections, volume
\* changes and redraw frames, noise and tones are never both playing.
MutualExclusionAtRest ==
    ~(isBrownNoisePlaying /\ isBinauralPlaying)

\* a noise preset that found the tones playing and stopped them
SwitchedTonesToNoise ==
    /\ lastOp = [name |-> "setBrainwavePreset", arg |-> NULL]
    /\ isBrownNoisePlaying
    /\ LogHasOn("stop", "oscillator")

\* C4: with the canvas mounted, after every completed preset selection a
\* redraw callback is pending (animationFrameId non-null and scheduled) if
\* and only if a source is playing.
VisualizerTracksPlayback ==
    (phase = "mounted" /\ lastOp.name = "setBrainwavePreset") =>
        /\ (animationFrameId # NULL) <=> Playing
        /\ animationFrameId # NULL => animationFrameId \in pending
        /\ animationFrameId = NULL => pending = {}

\* a selection that restarted the redraw after an earlier one had cancelled it
RedrawRestarted ==
    /\ lastOp.name = "setBrainwavePreset"
    /\ LogHas("requestFrame")
    /\ \E n \in 1..Len(nodes) : nodes[n].stops > 0
    /\ animationFrameId \in pending

\* C5: after onDestroy the noise source and both oscillators that were
\* referenced are stopped and disconnected, animationFrameId is null, no
\* redraw callback is scheduled, and the audio context is closed.
TeardownPostState ==
    phase = "destroyed" =>
        /\ animationFrameId = NULL
        /\ pending = {}
        /\ \A n \in {brownNoiseNode, leftOscillator, rightOscillator} \ {NULL} :
               nodes[n].stops > 0 /\ nodes[n].out = {}
        /\ audioContext # NULL => contexts[audioContext] = "closed"

\* teardown that found noise and tones both active and a redraw pending
TornDownFromBoth ==
    /\ phase = "destroyed"
    /\ isBrownNoisePlaying /\ isBinauralPlaying
    /\ LogHas("cancelFrame")
    /\ LogHasOn("stop", "source")
    /\ LogHasOn("stop", "oscillator")

\* C6: brownNoiseNode is non-null iff noise is playing, the two oscillator
\* references are non-null iff tones are playing, and before teardown no
\* reference is to a node that has been stopped.
StaleReference ==
    /\ (brownNoiseNode # NULL) <=> isBrownNoisePlaying
    /\ (leftOscillator # NULL) <=> isBinauralPlaying
    /\ (rightOscillator # NULL) <=> isBinauralPlaying
    /\ phase # "destroyed" =>
          \A n \in {brownNoiseNode, leftOscillator, rightOscillator} \ {NULL} :
              nodes[n].stops = 0

\* a toggle-off has just stopped the noise source
NoiseToggledOff ==
    /\ lastOp.name \in {"toggleBrownNoise", "setBrainwavePreset"}
    /\ LogHasOn("stop", "source")
    /\ ~isBrownNoisePlaying

\* C7: after setBrainwavePreset(f) with f a frequency, beatFrequency is f,
\* the left oscillator is at 200 Hz and the right one at 200 + f.
FrequencyPresetResult ==
    (lastOp.name = "setBrainwavePreset" /\ lastOp.arg # NULL) =>
        /\ beatFrequency = lastOp.arg
        /\ leftOscillator # NULL /\ rightOscillator # NULL
        /\ nodes[leftOscillator].value = baseFrequency
        /\ nodes[rightOscillator].value = baseFrequency + lastOp.arg

\* Theta selected while the tones were playing at another beat frequency
ThetaWhileTonesPlay ==
    /\ lastOp = [name |-> "setBrainwavePreset", arg |-> 40]
    /\ ~LogHas("create")
    /\ nodes[rightOscillator].value = 2040
    /\ nodes[leftOscillator].value = 2000

\* C8: the mergers left connected to the shared gain node are at most one,
\* and none while the tones are off.
MergerTornDown ==
    /\ Cardinality(MergersOnGain) <= 1
    /\ ~isBinauralPlaying => MergersOnGain = {}

\* C9: updateVolume with the shared gain node present sets the gain to
\* v * 0.1 if noise is playing and to v if it is not and tones are playing,
\* and changes nothing else but volume.
VolumeSetter ==
    [][\A v \in Volumes :
         (ChangeVolume(v) /\ gainNode # NULL) =>
            /\ isBrownNoisePlaying => nodes'[gainNode].value = v
            /\ (~isBrownNoisePlaying /\ isBinauralPlaying) =>
                   nodes'[gainNode].value = v * 10
            /\ \A n \in 1..Len(nodes) :
                   n # gainNode => nodes'[n] = nodes[n]
            /\ Len(nodes') = Len(nodes)
            /\ nodes'[gainNode] = [nodes[gainNode] EXCEPT !.value = nodes'[gainNode].value]
            /\ UNCHANGED <<audioContext, brownNoiseNode, gainNode, analyserNode,
                           leftOscillator, rightOscillator, leftGain, rightGain,
                           isBrownNoisePlaying, isBinauralPlaying, beatFrequency,
                           canvas, animationFrameId, contexts, buffers, pending,
                           frames, phase>>]_vars

\* the slider moved to its maximum while noise was playing
VolumeSetWhileNoise ==
    /\ lastOp = [name |-> "updateVolume", arg |-> SliderMax]
    /\ isBrownNoisePlaying
    /\ nodes[gainNode].value = SliderMax

\* C10: a frequency preset selected while the tones are playing keeps the
\* two oscillators, stops, disconnects and creates nothing, and changes only
\* beatFrequency and the two oscillators' frequencies.
InPlaceBeatUpdate ==
    [][\A i \in 2..Len(brainwavePresets) :
         (SelectPreset(i) /\ isBinauralPlaying /\ ~isBrownNoisePlaying) =>
            /\ beatFrequency' = brainwavePresets[i]
            /\ Len(nodes') = Len(nodes)
            /\ \A n \in 1..Len(nodes) :
                   IF n \in {leftOscillator, rightOscillator}
                   THEN nodes'[n] = [nodes[n] EXCEPT !.value = nodes'[n].value]
                   ELSE nodes'[n] = nodes[n]
            /\ UNCHANGED <<audioContext, brownNoiseNode, gainNode, analyserNode,
                           leftOscillator, rightOscillator, leftGain, rightGain,
                           isBrownNoisePlaying, isBinauralPlaying, volume,
                           canvas, animationFrameId, contexts, buffers, pending,
                           frames, phase>>]_vars

\* Gamma selected while the tones were playing at another beat frequency
BeatUpdatedInPlace ==
    /\ lastOp = [name |-> "setBrainwavePreset", arg |-> 300]
    /\ isBinauralPlaying
    /\ ~LogHas("create")
    /\ LogHas("set")
    /\ nodes[rightOscillator].value = 2300

NodesOfKind(kind) == {n \in 1..Len(nodes) : nodes[n].kind = kind}

\* the gain nodes that feed an analyser: the shared ones
SharedGains ==
    {n \in NodesOfKind("gain") :
        \E m \in nodes[n].out : m # Destination /\ nodes[m].kind = "analyser"}

\* C11: before the first activation there is no context, shared gain node
\* or analyser; at most one of each is ever created; every source and
\* merger is connected to that one gain node; and the context stays open
\* until teardown.
SharedNodesCreatedOnce ==
    /\ audioContext = NULL =>
          /\ contexts = <<>> /\ nodes = <<>>
          /\ gainNode = NULL /\ analyserNode = NULL
    /\ Len(contexts) <= 1
    /\ Cardinality(SharedGains) <= 1
    /\ Cardinality(NodesOfKind("analyser")) <= 1
    /\ audioContext # NULL =>
          /\ SharedGains = {gainNode}
          /\ NodesOfKind("analyser") = {analyserNode}
          /\ nodes[gainNode].out = {analyserNode}
          /\ nodes[analyserNode].out = {Destination}
    /\ \A n \in NodesOfKind("source") \cup NodesOfKind("merger") :
          nodes[n].out \subseteq {gainNode}
    /\ phase # "destroyed" =>
          \A c \in 1..Len(contexts) : contexts[c] = "running"

\* a second noise activation and a tone activation on the context of the first
SharedNodesReused ==
    /\ Len(contexts) = 1
    /\ Cardinality(NodesOfKind("source")) >= 2
    /\ isBinauralPlaying
    /\ \A n \in NodesOfKind("merger") : nodes[n].out = {gainNode}

\* the place of a call in the order of teardown
TeardownRank(op) ==
    CASE op = "cancelFrame" -> 1
      [] op \in {"stop", "disconnect"} -> 2
      [] op = "closeContext" -> 3
      [] OTHER -> 0

\* C12: onDestroy first cancels the pending redraw, then stops and
\* disconnects the nodes, and only then closes the context; it makes no
\* other call, so no redraw is requested after a node is stopped.
TeardownOrder ==
    lastOp.name = "onDestroy" =>
        /\ \A i \in 1..Len(log) : TeardownRank(log[i].op) > 0
        /\ \A i, j \in 1..Len(log) :
              i < j => TeardownRank(log[i].op) <= TeardownRank(log[j].op)
        /\ \A i \in 1..Len(log) :
              log[i].op = "disconnect" =>
                  i > 1 /\ log[i - 1] = [log[i] EXCEPT !.op = "stop"]
        /\ audioContext # NULL => log[Len(log)].op = "closeContext"

\* teardown with a redraw pending and noise and tones both active: one
\* cancel, three stops and disconnects, one close
TornDownInOrder ==
    /\ lastOp.name = "onDestroy"
    /\ Len(log) = 8
    /\ log[1].op = "cancelFrame"
    /\ log[8].op = "closeContext"

\* C13: every noise start has its own buffer source node and its own newly
\* generated buffer: the sources are as many as the buffers, no two share a
\* buffer, none is started twice, and the one playing is the newest and has
\* not been stopped.
FreshNoisePerStart ==
    /\ Cardinality(NodesOfKind("source")) = buffers
    /\ \A n \in NodesOfKind("source") :
          /\ nodes[n].buffer \in 1..buffers
          /\ nodes[n].starts = 1
          /\ \A m \in NodesOfKind("source") :
                 m # n => nodes[m].buffer # nodes[n].buffer
    /\ isBrownNoisePlaying =>
          /\ brownNoiseNode \in NodesOfKind("source")
          /\ phase # "destroyed" => nodes[brownNoiseNode].stops = 0
          /\ nodes[brownNoiseNode].buffer = buffers
          /\ \A m \in NodesOfKind("source") : m <= brownNoiseNode

\* noise on, off and on again: the third click plays a second buffer
NoiseOnOffOn ==
    /\ lastOp = [name |-> "setBrainwavePreset", arg |-> NULL]
    /\ isBrownNoisePlaying
    /\ buffers = 2
    /\ nodes[brownNoiseNode].buffer = 2
    /\ \E n \in NodesOfKind("source") : nodes[n].stops = 1 /\ nodes[n].buffer = 1

Mode ==
    CASE isBrownNoisePlaying /\ isBinauralPlaying -> "Both"
      [] isBrownNoisePlaying /\ ~isBinauralPlaying -> "NoiseOnly"
      [] ~isBrownNoisePlaying /\ isBinauralPlaying -> "TonesOnly"
      [] OTHER -> "Idle"

\* the transition rules of the enum machine
PresetTable(mode, frequency) ==
    IF frequency = NULL
    THEN CASE mode = "Idle" -> "NoiseOnly"
           [] mode = "NoiseOnly" -> "Idle"
           [] mode = "TonesOnly" -> "NoiseOnly"
           [] OTHER -> "undefined"
    ELSE CASE mode \in {"Idle", "NoiseOnly", "TonesOnly"} -> "TonesOnly"
           [] OTHER -> "undefined"

PresetSelected == \E i \in 1..Len(brainwavePresets) : SelectPreset(i)

\* C15: every preset selection moves the pair of playback flags as the
\* table says (noise preset: Idle to NoiseOnly, NoiseOnly to Idle, TonesOnly
\* to NoiseOnly; frequency preset: Idle, NoiseOnly, TonesOnly to TonesOnly),
\* no other step moves it, and Both is never entered.
PlaybackTransitions ==
    [][/\ Mode # "Both" /\ Mode' # "Both"
       /\ \A i \in 1..Len(brainwavePresets) :
             SelectPreset(i) => Mode' = PresetTable(Mode, brainwavePresets[i])
       /\ ~PresetSelected => Mode' = Mode]_vars

\* Idle reached from TonesOnly by way of NoiseOnly
IdleAfterTonesAndNoise ==
    /\ lastOp = [name |-> "setBrainwavePreset", arg |-> NULL]
    /\ Mode = "Idle"
    /\ LogHasOn("stop", "source")
    /\ \E n \in NodesOfKind("oscillator") : nodes[n].stops = 1

\* C16: at most one redraw callback is pending, and animationFrameId is
\* non-null exactly when one is pending and is then its id.
SingleRenderLoop ==
    /\ Cardinality(pending) <= 1
    /\ (animationFrameId # NULL) <=> (pending # {})
    /\ animationFrameId # NULL => pending = {animationFrameId}

\* a preset selected while the loop, already some frames old, was running
SelectedWhileLoopRuns ==
    /\ lastOp.name = "setBrainwavePreset"
    /\ Playing
    /\ frames >= 2
    /\ ~LogHas("requestFrame")
    /\ pending = {animationFrameId}

\* C17: every buffer source and oscillator is started exactly once and
\* stopped at most once, stopped only after its start and disconnected only
\* after its stop; a handler never stops a node that was already stopped.
NoDoubleOperation ==
    /\ \A n \in NodesOfKind("source") \cup NodesOfKind("oscillator") :
          /\ nodes[n].starts = 1
          /\ nodes[n].stops <= 1
          /\ nodes[n].out = {} => nodes[n].stops = 1
    /\ \A i \in 1..Len(log) :
          /\ log[i].op = "stop" =>
                /\ nodes[log[i].node].stops = 1
                /\ \A j \in 1..Len(log) :
                      (log[j].op = "start" /\ log[j].node = log[i].node) => j < i
          /\ log[i].op = "disconnect" =>
                \E j \in 1..(i - 1) :
                    log[j].op = "stop" /\ log[j].node = log[i].node

\* teardown of playing tones after an earlier toggle-off had stopped a node
TeardownAfterToggleOff ==
    /\ lastOp.name = "onDestroy"
    /\ LogHasOn("stop", "oscillator")
    /\ \E n \in NodesOfKind("source") \cup NodesOfKind("oscillator") :
          /\ n \notin {brownNoiseNode, leftOscillator, rightOscillator}
          /\ nodes[n].stops = 1

\* the preset buttons that are highlighted
Highlighted == {i \in 1..Len(brainwavePresets) : active(i)}

HighlightRule ==
    /\ Cardinality(Highlighted) <= 1
    /\ isBrownNoisePlaying => Highlighted = {1}
    /\ (isBinauralPlaying /\ ~isBrownNoisePlaying) =>
          /\ Cardinality(Highlighted) = 1
          /\ \A i \in Highlighted : brainwavePresets[i] = beatFrequency
    /\ ~Playing => Highlighted = {}

\* C18: at most one preset button is highlighted: the noise button while
\* noise plays, otherwise the button of beatFrequency while tones play, none
\* when idle; a selection highlights the button selected unless it turned
\* noise off, and no other step changes the highlight.
ActiveButtonHighlight ==
    [][/\ HighlightRule /\ HighlightRule'
       /\ \A i \in 1..Len(brainwavePresets) :
             SelectPreset(i) =>
                 Highlighted' = IF i = 1 /\ isBrownNoisePlaying THEN {} ELSE {i}
       /\ ~PresetSelected => Highlighted' = Highlighted]_vars

\* noise playing after Theta had played: only the noise button is highlighted
NoiseHighlightedAfterTheta ==
    /\ lastOp = [name |-> "setBrainwavePreset", arg |-> NULL]
    /\ isBrownNoisePlaying
    /\ beatFrequency = 40
    /\ Highlighted = {1}

====
